---- MODULE Spec2Model ----
(***************************************************************************)
(* Model of the two client-side interaction controllers of the repository: *)
(*   - ResetPasswordPage  (token-gated password reset form)                *)
(*   - ResumeJDUpload     (resume upload + job description dialog)         *)
(* Strings that the code inspects (passwords, job fields, MIME types) are  *)
(* sequences of one-character strings; opaque texts (messages, routes)     *)
(* are plain strings.                                                      *)
(***************************************************************************)
EXTENDS Integers, Sequences, FiniteSets, TLC

VARIABLES
    active,             \* which page this run visits: "reset", "upload" or "validate"
    route,              \* current location of the router
    \* ---- ResetPasswordPage ----
    token,              \* params.token ("" when the route carries none)
    passwords,          \* [password, confirmPassword]
    error,              \* error message state
    success,            \* success message state
    isLoading,          \* busy flag of the reset form
    tokenValid,         \* "null" | "true" | "false"
    resetInFlight,      \* reset POSTs awaiting their response
    nResetRequests,     \* reset POSTs issued so far
    redirectsScheduled, \* setTimeout(router.push('/signin')) calls made so far
    redirectsDone,      \* of those, the ones whose timer has fired
    \* ---- ResumeJDUpload ----
    resumeFile,         \* selected file or NoFile
    jobDetails,         \* [title, company, description]
    isScanning,         \* busy flag of the upload dialog
    openDialog,         \* DashboardContext: dialog shown
    resumeAnalysisData, \* DashboardContext: shared result slot
    analysisInFlight,   \* analysis POSTs awaiting their response: set of
                        \* [id, orphan, cancelled]; cancelled records that the
                        \* dialog was closed by hand while the POST was pending
    nAnalysisRequests,  \* analysis POSTs issued so far
    \* ---- history ----
    last                \* the handler that ran last and the branch it took

vars == <<active, route, token, passwords, error, success, isLoading, tokenValid,
          resetInFlight, nResetRequests, redirectsScheduled, redirectsDone,
          resumeFile, jobDetails, isScanning, openDialog, resumeAnalysisData,
          analysisInFlight, nAnalysisRequests, last>>

resetVars == <<token, passwords, error, success, isLoading, tokenValid,
               resetInFlight, nResetRequests, redirectsScheduled, redirectsDone>>

uploadVars == <<resumeFile, jobDetails, isScanning, openDialog, resumeAnalysisData,
                analysisInFlight, nAnalysisRequests>>

----------------------------------------------------------------------------
(* Bounds of the model *)

MaxResetRequests == 2

MaxAnalysisRequests == 2

MaxPwLen == 8

----------------------------------------------------------------------------
(* JavaScript values *)

Undefined == "<undefined>"

Null == "<null>"

\* truthiness of a message-like value (string | undefined | null)
Truthy(v) == v \notin {"", Undefined, Null}

\* a || b
Or(a, b) == IF Truthy(a) THEN a ELSE b

LowerAZ == {"a","b","c","d","e","f","g","h","i","j","k","l","m",
            "n","o","p","q","r","s","t","u","v","w","x","y","z"}

UpperAZ == {"A","B","C","D","E","F","G","H","I","J","K","L","M",
            "N","O","P","Q","R","S","T","U","V","W","X","Y","Z"}

Digits == {"0","1","2","3","4","5","6","7","8","9"}

LineTerminators == {"\n", "\r"}

WhiteSpace == {" ", "\t", "\n", "\r"}

\* /(?=.*[class])/.test(s): at some start position, a run of non-line-terminator
\* characters is followed by a character of the class
LookaheadTest(s, class) ==
    \E start \in 1..(Len(s) + 1) :
        \E j \in start..Len(s) :
            /\ s[j] \in class
            /\ \A k \in start..(j - 1) : s[k] \notin LineTerminators

----------------------------------------------------------------------------
(* ResetPasswordPage *)

ResetRoute == "/reset-password/[token]"

SigninRoute == "/signin"

ForgotRoute == "/forgot-password"

MinPasswordLength == 8

MsgInvalidLink == "Invalid reset link. Please request a new password reset."

MsgFillAll == "Please fill in all fields"

MsgMismatch == "Passwords do not match"

MsgLength == "Password must be at least 8 characters long"

MsgLower == "Password must contain at least one lowercase letter"

MsgUpper == "Password must contain at least one uppercase letter"

MsgDigit == "Password must contain at least one number"

MsgSuccessDefault == "Password has been reset successfully! Redirecting to login..."

MsgUnexpected == "An unexpected error occurred. Please try again later."

MsgInvalidFallback == "This password reset link is invalid or has expired."

validatePasswordSwapped(password) ==
    IF Len(password) < MinPasswordLength THEN MsgLength
    ELSE IF ~LookaheadTest(password, UpperAZ) THEN MsgUpper
    ELSE IF ~LookaheadTest(password, LowerAZ) THEN MsgLower
    ELSE IF ~LookaheadTest(password, Digits) THEN MsgDigit
    ELSE Null

validatePassword(password) ==
    IF Len(password) < MinPasswordLength THEN MsgLength
    ELSE IF ~LookaheadTest(password, LowerAZ) THEN MsgLower
    ELSE IF ~LookaheadTest(password, UpperAZ) THEN MsgUpper
    ELSE IF ~LookaheadTest(password, Digits) THEN MsgDigit
    ELSE Null

\* the three-way view selection of the render
View ==
    IF tokenValid = "null" THEN "loading"
    ELSE IF tokenValid = "false" THEN "invalid-token"
    ELSE "form"

\* the page is displayed with the form in it
FormRendered == active = "reset" /\ route = ResetRoute /\ View = "form"

SubmitDisabledNoLoading ==
    passwords.password = <<>> \/ passwords.confirmPassword = <<>>

\* disabled attribute of the submit button
SubmitDisabled ==
    isLoading \/ passwords.password = <<>> \/ passwords.confirmPassword = <<>>

\* disabled attribute of both password inputs
InputsDisabled == isLoading

\* the error text the current view puts on screen ("" when none)
DisplayedError ==
    IF View = "invalid-token" THEN Or(error, MsgInvalidFallback)
    ELSE IF View = "form" /\ Truthy(error) THEN error
    ELSE ""

\* values typed or pasted into a password input
PasswordInputs ==
    { <<>>,
      <<"A","b","1">>,
      <<"a","b","c","d","e","f","g","h">>,
      <<"A","B","C","D","E","F","G","1">>,
      <<"A","b","c","d","e","f","g","h">>,
      <<"A","b","c","d","e","f","g","1">> }

\* useEffect on mount
TokenCheckAlwaysValid ==
    /\ tokenValid' = "true"
    /\ UNCHANGED error

TokenCheck ==
    IF token = ""
    THEN /\ error' = MsgInvalidLink
         /\ tokenValid' = "false"
    ELSE /\ tokenValid' = "true"
         /\ UNCHANGED error

Mount ==
    /\ active = "reset"
    /\ route = ResetRoute
    /\ tokenValid = "null"
    /\ TokenCheck
    /\ last' = [op |-> "mount", branch |-> IF token = "" THEN "absent" ELSE "present"]
    /\ UNCHANGED <<active, route, token, passwords, success, isLoading,
                   resetInFlight, nResetRequests, redirectsScheduled, redirectsDone>>
    /\ UNCHANGED uploadVars

handleChange(name, value) ==
    /\ FormRendered
    /\ ~InputsDisabled
    /\ passwords' = [passwords EXCEPT ![name] = value]
    /\ error' = IF Truthy(error) THEN "" ELSE error
    /\ success' = IF Truthy(success) THEN "" ELSE success
    /\ last' = [op |-> "change", branch |-> name]
    /\ UNCHANGED <<active, route, token, isLoading, tokenValid, resetInFlight,
                   nResetRequests, redirectsScheduled, redirectsDone>>
    /\ UNCHANGED uploadVars

Change ==
    \E name \in {"password", "confirmPassword"} :
        \E value \in PasswordInputs : handleChange(name, value)

\* client-side validation of handleResetPassword: the branch taken
SubmitGuardNoMatch(p) ==
    IF p.password = <<>> \/ p.confirmPassword = <<>> THEN "empty"
    ELSE IF validatePassword(p.password) # Null THEN "weak"
    ELSE "post"

SubmitGuard(p) ==
    IF p.password = <<>> \/ p.confirmPassword = <<>> THEN "empty"
    ELSE IF p.password # p.confirmPassword THEN "mismatch"
    ELSE IF validatePassword(p.password) # Null THEN "weak"
    ELSE "post"

GuardMessage(p) ==
    CASE SubmitGuard(p) = "empty" -> MsgFillAll
      [] SubmitGuard(p) = "mismatch" -> MsgMismatch
      [] SubmitGuard(p) = "weak" -> validatePassword(p.password)
      [] OTHER -> ""

\* handleResetPassword up to the await
Submit ==
    /\ FormRendered
    /\ ~SubmitDisabled
    /\ LET branch == SubmitGuard(passwords) IN
       /\ branch = "post" => nResetRequests < MaxResetRequests
       /\ success' = ""
       /\ error' = GuardMessage(passwords)
       /\ isLoading' = (branch = "post")
       /\ resetInFlight' = IF branch = "post" THEN resetInFlight + 1 ELSE resetInFlight
       /\ nResetRequests' = IF branch = "post" THEN nResetRequests + 1 ELSE nResetRequests
       /\ last' = [op |-> "submit", branch |-> branch]
    /\ UNCHANGED <<active, route, token, passwords, tokenValid,
                   redirectsScheduled, redirectsDone>>
    /\ UNCHANGED uploadVars


\* what the server (or the transport) answers to the reset POST
ResetOutcomes ==
    [kind : {"ok"}, status : {200}, nullBody : {FALSE}, success : BOOLEAN,
     message : {Undefined, "Password updated"}, errorField : {Undefined}]
    \cup
    [kind : {"ok"}, status : {200}, nullBody : {TRUE}, success : {FALSE},
     message : {Undefined}, errorField : {Undefined}]
    \cup
    [kind : {"http"}, status : {400, 404, 500}, nullBody : {FALSE}, success : {FALSE},
     message : {Undefined, "Token expired"}, errorField : {Undefined, "Bad request"}]
    \cup
    [kind : {"network"}, status : {0}, nullBody : {FALSE}, success : {FALSE},
     message : {Undefined}, errorField : {Undefined}]

\* the try block reaches setSuccess (a null body throws on response.data.success)
ResetSucceeded(r) == r.kind = "ok" /\ ~r.nullBody /\ r.success

\* the catch block runs
ResetFailed(r) == r.kind \in {"http", "network"} \/ (r.kind = "ok" /\ r.nullBody)

ErrorAfterResponse(r) ==
    IF r.kind = "http" THEN Or(r.message, r.errorField)
    ELSE IF ResetFailed(r) THEN MsgUnexpected
    ELSE error

SuccessAfterResponse(r) ==
    IF ResetSucceeded(r) THEN Or(r.message, MsgSuccessDefault) ELSE success

PasswordsAfterResponseKept(r) == passwords

PasswordsAfterResponse(r) ==
    IF ResetSucceeded(r)
    THEN [password |-> <<>>, confirmPassword |-> <<>>]
    ELSE passwords

TokenValidAfterResponseOnly400(r) ==
    IF r.kind = "http" /\ r.status = 400 THEN "false" ELSE tokenValid

TokenValidAfterResponse(r) ==
    IF r.kind = "http" /\ r.status \in {400, 404} THEN "false" ELSE tokenValid

LoadingAfterResponseStuck(r) == IF ResetFailed(r) THEN isLoading ELSE FALSE

\* finally { setIsLoading(false) }
LoadingAfterResponse(r) == FALSE

\* handleResetPassword after the await
ResetResponse ==
    /\ resetInFlight > 0
    /\ \E r \in ResetOutcomes :
        /\ error' = ErrorAfterResponse(r)
        /\ success' = SuccessAfterResponse(r)
        /\ passwords' = PasswordsAfterResponse(r)
        /\ tokenValid' = TokenValidAfterResponse(r)
        /\ isLoading' = LoadingAfterResponse(r)
        /\ redirectsScheduled' =
              IF ResetSucceeded(r) THEN redirectsScheduled + 1 ELSE redirectsScheduled
        /\ last' = [op |-> "resetResponse", branch |-> r.kind, outcome |-> r]
    /\ resetInFlight' = resetInFlight - 1
    /\ UNCHANGED <<active, route, token, nResetRequests, redirectsDone>>
    /\ UNCHANGED uploadVars

\* the callback of setTimeout(..., 3000)
RedirectTimer ==
    /\ redirectsDone < redirectsScheduled
    /\ redirectsDone' = redirectsDone + 1
    /\ route' = SigninRoute
    /\ last' = [op |-> "redirectTimer", branch |-> ""]
    /\ UNCHANGED <<active, token, passwords, error, success, isLoading, tokenValid,
                   resetInFlight, nResetRequests, redirectsScheduled>>
    /\ UNCHANGED uploadVars

\* "Back to Login" of the form view
BackToLogin ==
    /\ FormRendered
    /\ ~isLoading
    /\ route' = SigninRoute
    /\ last' = [op |-> "navigate", branch |-> "form"]
    /\ UNCHANGED active
    /\ UNCHANGED resetVars
    /\ UNCHANGED uploadVars

\* the two recovery buttons of the invalid-token view
LeaveInvalidView ==
    /\ active = "reset"
    /\ route = ResetRoute
    /\ View = "invalid-token"
    /\ route' \in {ForgotRoute, SigninRoute}
    /\ last' = [op |-> "navigate", branch |-> "invalid-token"]
    /\ UNCHANGED active
    /\ UNCHANGED resetVars
    /\ UNCHANGED uploadVars

----------------------------------------------------------------------------
(* ResumeJDUpload *)

DashboardRoute == "/dashboard/jd-matcher"

ResultsRoute == "/dashboard/jd-matcher/resume-analysis"

NoFile == [type |-> <<>>, name |-> "<none>"]

PdfType == <<"a","p","p","l","i","c","a","t","i","o","n","/","p","d","f">>

OdtType == <<"a","p","p","l","i","c","a","t","i","o","n","/","v","n","d",".","o","a","s","i","s",".","o","p","e","n","d","o","c","u","m","e","n","t",".","t","e","x","t">>

DocType == <<"a","p","p","l","i","c","a","t","i","o","n","/","m","s","w","o","r","d">>

PngType == <<"i","m","a","g","e","/","p","n","g">>

DocumentWord == <<"d","o","c","u","m","e","n","t">>

\* s.includes(sub)
Includes(s, sub) ==
    \E i \in 0..(Len(s) - Len(sub)) : SubSeq(s, i + 1, i + Len(sub)) = sub

\* files the user may pick or drop
FileInputs ==
    { [type |-> PdfType, name |-> "cv.pdf"],
      [type |-> OdtType, name |-> "cv.odt"],
      [type |-> DocType, name |-> "cv.doc"],
      [type |-> PngType, name |-> "cv.png"] }

\* values typed into a job-detail field
JobFieldInputs == { <<>>, <<" ">>, <<"Q","A">> }

EmptyJobDetails == [title |-> <<>>, company |-> <<>>, description |-> <<>>]

RECURSIVE TrimStart(_)
TrimStart(s) ==
    IF s # <<>> /\ Head(s) \in WhiteSpace THEN TrimStart(Tail(s)) ELSE s

RECURSIVE TrimEnd(_)
TrimEnd(s) ==
    IF s # <<>> /\ s[Len(s)] \in WhiteSpace THEN TrimEnd(SubSeq(s, 1, Len(s) - 1)) ELSE s

\* String.prototype.trim
Trim(s) == TrimEnd(TrimStart(s))

\* the dialog is on screen
UploadRendered == active = "upload" /\ openDialog

FileAcceptedPdfOnly(file) == file # NoFile /\ file.type = PdfType

FileAccepted(file) ==
    file # NoFile /\ (file.type = PdfType \/ Includes(file.type, DocumentWord))

handleFileUpload(file) ==
    /\ UploadRendered
    /\ resumeFile' = IF FileAccepted(file) THEN file ELSE resumeFile
    /\ last' = [op |-> "fileUpload", branch |-> file.name]
    /\ UNCHANGED <<active, route, jobDetails, isScanning, openDialog, resumeAnalysisData,
                   analysisInFlight, nAnalysisRequests>>
    /\ UNCHANGED resetVars

handleDrop(file) ==
    /\ UploadRendered
    /\ resumeFile' = IF FileAccepted(file) THEN file ELSE resumeFile
    /\ last' = [op |-> "drop", branch |-> file.name]
    /\ UNCHANGED <<active, route, jobDetails, isScanning, openDialog, resumeAnalysisData,
                   analysisInFlight, nAnalysisRequests>>
    /\ UNCHANGED resetVars

FileUpload == \E file \in FileInputs \cup {NoFile} : handleFileUpload(file)

Drop == \E file \in FileInputs \cup {NoFile} : handleDrop(file)

handleJobDetailsChange(field, value) ==
    /\ UploadRendered
    /\ jobDetails' = [jobDetails EXCEPT ![field] = value]
    /\ last' = [op |-> "jobDetailsChange", branch |-> field]
    /\ UNCHANGED <<active, route, resumeFile, isScanning, openDialog, resumeAnalysisData,
                   analysisInFlight, nAnalysisRequests>>
    /\ UNCHANGED resetVars

JobDetailsChange ==
    \E field \in {"title", "company", "description"} :
        \E value \in JobFieldInputs : handleJobDetailsChange(field, value)

isFormValidNoTrim ==
    /\ resumeFile # NoFile
    /\ jobDetails.title # <<>>
    /\ jobDetails.company # <<>>
    /\ jobDetails.description # <<>>

isFormValid ==
    /\ resumeFile # NoFile
    /\ Trim(jobDetails.title) # <<>>
    /\ Trim(jobDetails.company) # <<>>
    /\ Trim(jobDetails.description) # <<>>

StartDisabledNoScanning == ~isFormValid

\* disabled attribute of the "Start Analysis" button
StartDisabled == ~isFormValid \/ isScanning

\* the if of handleStartScanning
ScanningGuard ==
    /\ resumeFile # NoFile
    /\ jobDetails.title # <<>>
    /\ jobDetails.company # <<>>
    /\ jobDetails.description # <<>>


\* opaque analysis payloads the backend may return
AnalysisPayloads == {"analysis-A", "analysis-B"}

AnalysisOutcomes ==
    [kind : {"ok"}, data : AnalysisPayloads]
    \cup [kind : {"axiosError", "otherError"}, data : {Undefined}]

\* handleStartScanning up to the await (the click reaches it only through an
\* enabled button)
StartScanning ==
    /\ UploadRendered
    /\ ~StartDisabled
    /\ ScanningGuard => nAnalysisRequests < MaxAnalysisRequests
    /\ IF ScanningGuard
       THEN /\ isScanning' = TRUE
            /\ resumeAnalysisData' = Null
            /\ nAnalysisRequests' = nAnalysisRequests + 1
            /\ analysisInFlight' = analysisInFlight \cup
                  {[id |-> nAnalysisRequests + 1, orphan |-> FALSE, cancelled |-> FALSE]}
            /\ last' = [op |-> "startScanning", branch |-> "post"]
       ELSE /\ UNCHANGED <<isScanning, resumeAnalysisData, nAnalysisRequests,
                           analysisInFlight>>
            /\ last' = [op |-> "startScanning", branch |-> "skipped"]
    /\ UNCHANGED <<active, route, resumeFile, jobDetails, openDialog>>
    /\ UNCHANGED resetVars

ScanningAfterResponseStuck(req, r) ==
    IF r.kind = "ok" /\ ~req.orphan THEN FALSE ELSE isScanning

\* finally { setIsScanning(false) }: a state update of a component instance
\* that has been unmounted is dropped
ScanningAfterResponse(req, r) == IF req.orphan THEN isScanning ELSE FALSE

ResultAfterResponseAlways(r) == r.data

\* setResumeAnalysisData(response.data) is the last-but-one statement of the try
\* block; the catch block leaves the slot alone
ResultAfterResponse(r) == IF r.kind = "ok" THEN r.data ELSE resumeAnalysisData

\* handleStartScanning after the await
AnalysisResponse ==
    \E req \in analysisInFlight :
        \E r \in AnalysisOutcomes :
            /\ analysisInFlight' = analysisInFlight \ {req}
            /\ IF r.kind = "ok"
               THEN /\ openDialog' = FALSE
                    /\ route' = ResultsRoute
               ELSE UNCHANGED <<openDialog, route>>
            /\ resumeAnalysisData' = ResultAfterResponse(r)
            /\ isScanning' = ScanningAfterResponse(req, r)
            /\ last' = [op |-> "analysisResponse", branch |-> r.kind,
                        orphan |-> req.orphan, cancelled |-> req.cancelled,
                        data |-> r.data]
            /\ UNCHANGED <<active, resumeFile, jobDetails, nAnalysisRequests>>
            /\ UNCHANGED resetVars

handleCloseDialogBox ==
    /\ UploadRendered
    /\ resumeFile' = NoFile
    /\ jobDetails' = EmptyJobDetails
    /\ isScanning' = FALSE
    /\ openDialog' = FALSE
    /\ analysisInFlight' = {[req EXCEPT !.cancelled = TRUE] : req \in analysisInFlight}
    /\ last' = [op |-> "closeDialogBox", branch |-> ""]
    /\ UNCHANGED <<active, route, resumeAnalysisData, nAnalysisRequests>>
    /\ UNCHANGED resetVars

\* the hosting page shows the dialog again; whether it kept the component
\* mounted while hidden or mounts a fresh one is its choice
OpenDialog ==
    /\ active = "upload"
    /\ ~openDialog
    /\ openDialog' = TRUE
    /\ route' = DashboardRoute
    /\ \E remount \in BOOLEAN :
          IF remount
          THEN /\ resumeFile' = NoFile
               /\ jobDetails' = EmptyJobDetails
               /\ isScanning' = FALSE
               /\ analysisInFlight' =
                     {[req EXCEPT !.orphan = TRUE] : req \in analysisInFlight}
               /\ last' = [op |-> "openDialog", branch |-> "remount"]
          ELSE /\ UNCHANGED <<resumeFile, jobDetails, isScanning, analysisInFlight>>
               /\ last' = [op |-> "openDialog", branch |-> "kept"]
    /\ UNCHANGED <<active, resumeAnalysisData, nAnalysisRequests>>
    /\ UNCHANGED resetVars

----------------------------------------------------------------------------
(* The two pages *)

InitReset ==
    /\ passwords = [password |-> <<>>, confirmPassword |-> <<>>]
    /\ error = ""
    /\ success = ""
    /\ isLoading = FALSE
    /\ tokenValid = "null"
    /\ resetInFlight = 0
    /\ nResetRequests = 0
    /\ redirectsScheduled = 0
    /\ redirectsDone = 0

InitUpload ==
    /\ resumeFile = NoFile
    /\ jobDetails = EmptyJobDetails
    /\ isScanning = FALSE
    /\ resumeAnalysisData = Null
    /\ analysisInFlight = {}
    /\ nAnalysisRequests = 0

Init ==
    /\ active \in {"reset", "upload"}
    /\ route = IF active = "reset" THEN ResetRoute ELSE DashboardRoute
    /\ token \in (IF active = "reset" THEN {"", "tok"} ELSE {""})
    /\ openDialog = (active = "upload")
    /\ InitReset
    /\ InitUpload
    /\ last = [op |-> "init", branch |-> ""]

Next ==
    \/ Mount
    \/ Change
    \/ Submit
    \/ ResetResponse
    \/ RedirectTimer
    \/ BackToLogin
    \/ LeaveInvalidView
    \/ FileUpload
    \/ Drop
    \/ JobDetailsChange
    \/ StartScanning
    \/ AnalysisResponse
    \/ handleCloseDialogBox
    \/ OpenDialog

Spec == Init /\ [][Next]_vars

\* every request is answered and every timer fires
FairSpec ==
    /\ Spec
    /\ WF_vars(ResetResponse)
    /\ WF_vars(AnalysisResponse)
    /\ WF_vars(RedirectTimer)

----------------------------------------------------------------------------
(* validatePassword over all short passwords *)

Alphabet == {"a", "A", "1", "-"}

BoundedPasswords == UNION {[1..n -> Alphabet] : n \in 0..MaxPwLen}

InitValidate ==
    /\ active = "validate"
    /\ route = ResetRoute
    /\ token = "tok"
    /\ openDialog = FALSE
    /\ InitUpload
    /\ passwords \in [password : BoundedPasswords, confirmPassword : {<<>>}]
    /\ error = ""
    /\ success = ""
    /\ isLoading = FALSE
    /\ tokenValid = "true"
    /\ resetInFlight = 0
    /\ nResetRequests = 0
    /\ redirectsScheduled = 0
    /\ redirectsDone = 0
    /\ last = [op |-> "init", branch |-> ""]

Validate ==
    /\ active = "validate"
    /\ last.op = "init"
    /\ last' = [op |-> "validate", branch |-> validatePassword(passwords.password)]
    /\ UNCHANGED <<active, route>>
    /\ UNCHANGED resetVars
    /\ UNCHANGED uploadVars

NextValidate == Validate

SpecValidate == InitValidate /\ [][NextValidate]_vars


----------------------------------------------------------------------------
(* Properties *)

\* p contains a character of the class
Contains(p, class) == \E i \in 1..Len(p) : p[i] \in class

\* p breaks one of the four password rules
BreaksARule(p) ==
    \/ Len(p) < MinPasswordLength
    \/ ~Contains(p, LowerAZ)
    \/ ~Contains(p, UpperAZ)
    \/ ~Contains(p, Digits)

\* C1: a submit with an empty field, with differing fields or with a password
\* that breaks a rule issues no reset POST (the request count and the pending
\* requests are unchanged) and leaves a non-empty error message on screen.
C1_RejectedSubmitIssuesNoPost ==
    [][ ( /\ last'.op = "submit"
          /\ \/ passwords.password = <<>>
             \/ passwords.confirmPassword = <<>>
             \/ passwords.password # passwords.confirmPassword
             \/ BreaksARule(passwords.password) )
        => ( /\ nResetRequests' = nResetRequests
             /\ resetInFlight' = resetInFlight
             /\ Truthy(error')
             /\ DisplayedError' = error'
             /\ ~isLoading' ) ]_vars

\* C1 witness: a submit of two differing non-empty passwords was rejected
C1_Witness ==
    /\ last.op = "submit"
    /\ last.branch = "mismatch"
    /\ passwords.password # <<>>
    /\ passwords.confirmPassword # <<>>
    /\ ~BreaksARule(passwords.password)
    /\ error = MsgMismatch
    /\ nResetRequests = 0

\* the step is the arrival of a 400 or 404 answer to the reset POST
IsTokenRejection(l) ==
    l.op = "resetResponse" /\ l.outcome.kind = "http" /\ l.outcome.status \in {400, 404}

\* C2: tokenValid leaves Unknown only at mount, to Valid or Invalid; it leaves
\* Valid only to Invalid and only on a 400/404 answer, and every such answer
\* makes it Invalid; once Invalid it stays Invalid, the invalid-token view is
\* shown, and no submit, field edit or reset request happens any more.
C2_TokenValidityStateMachine ==
    [][ /\ (tokenValid = "null" /\ tokenValid' # "null")
            => (last'.op = "mount" /\ tokenValid' \in {"true", "false"})
        /\ (tokenValid = "true" /\ tokenValid' # "true")
            => (tokenValid' = "false" /\ IsTokenRejection(last'))
        /\ IsTokenRejection(last') => tokenValid' = "false"
        /\ tokenValid = "false"
            => ( /\ tokenValid' = "false"
                 /\ View' = "invalid-token"
                 /\ ~FormRendered'
                 /\ last'.op \notin {"submit", "change"}
                 /\ nResetRequests' = nResetRequests
                 /\ resetInFlight' = 0 ) ]_vars

\* C2 witness: a token that was present at mount has been rejected with 404
C2_Witness ==
    /\ token # ""
    /\ tokenValid = "false"
    /\ last.op = "resetResponse"
    /\ last.outcome.status = 404
    /\ View = "invalid-token"

\* C3: with no token in the route, no reset request is ever issued, and from the
\* mount on tokenValid is Invalid, the error message is set and the
\* invalid-token view shows it.
C3_AbsentTokenNoRequest ==
    (active = "reset" /\ token = "")
        => ( /\ nResetRequests = 0
             /\ resetInFlight = 0
             /\ tokenValid # "true"
             /\ tokenValid # "null"
                  => ( /\ tokenValid = "false"
                       /\ error = MsgInvalidLink
                       /\ View = "invalid-token"
                       /\ DisplayedError = MsgInvalidLink ) )

\* C3 witness: the page was mounted without a token and the user has left it
C3_Witness ==
    /\ active = "reset"
    /\ token = ""
    /\ tokenValid = "false"
    /\ route = ForgotRoute

\* C4: at most one analysis request is in flight at any time.
C4_AtMostOneAnalysisInFlight == Cardinality(analysisInFlight) <= 1

\* C5: at most one reset request is in flight, and while one is pending the
\* busy flag is set and the submit button and both inputs are disabled.
C5_AtMostOneResetInFlight ==
    /\ resetInFlight <= 1
    /\ resetInFlight > 0 => (isLoading /\ SubmitDisabled /\ InputsDisabled)

\* C5 witness: a reset request is pending
C5_Witness ==
    /\ resetInFlight = 1
    /\ isLoading
    /\ last.op = "submit"
    /\ last.branch = "post"

\* C6: after every failed reset POST a non-empty error message is on screen:
\* the body's message (or error) when there is one, a generic message otherwise.
C6_FailedResetShowsError ==
    (last.op = "resetResponse" /\ last.outcome.kind \in {"http", "network"})
        => ( /\ DisplayedError # ""
             /\ Truthy(last.outcome.message) => DisplayedError = last.outcome.message
             /\ (~Truthy(last.outcome.message) /\ Truthy(last.outcome.errorField))
                  => DisplayedError = last.outcome.errorField )

NoPasswords == [password |-> <<>>, confirmPassword |-> <<>>]

\* C7 as stated: every reset POST that resolves without an HTTP error sets the
\* success message, clears both fields and schedules the redirect.
C7_EveryResolvedPostSucceeds ==
    [][ (last'.op = "resetResponse" /\ last'.outcome.kind = "ok")
        => ( /\ Truthy(success')
             /\ passwords' = NoPasswords
             /\ redirectsScheduled' = redirectsScheduled + 1 ) ]_vars

\* C7 amended: every reset POST that resolves without an HTTP error and whose
\* body carries a truthy success field sets the success message, clears both
\* fields and schedules the redirect to /signin; every scheduled redirect is
\* eventually performed.
C7_SuccessBodyRedirects ==
    /\ [][ (last'.op = "resetResponse" /\ last'.outcome.kind = "ok"
               /\ ~last'.outcome.nullBody /\ last'.outcome.success)
           => ( /\ Truthy(success')
                /\ passwords' = NoPasswords
                /\ redirectsScheduled' = redirectsScheduled + 1
                /\ ~isLoading' ) ]_vars
    /\ [][ redirectsDone' # redirectsDone
           => (route' = SigninRoute /\ redirectsDone' = redirectsDone + 1) ]_vars
    /\ (redirectsDone < redirectsScheduled)
          ~> (redirectsDone = redirectsScheduled /\ route = SigninRoute)

\* C7 witness: the redirect scheduled by a successful reset has been performed
C7_Witness ==
    /\ last.op = "redirectTimer"
    /\ redirectsDone = 1
    /\ route = SigninRoute
    /\ Truthy(success)
    /\ passwords = NoPasswords


\* C8: the busy flag is cleared on every path: a rejected submit and every
\* answer to the reset POST leave isLoading false, every answer to the analysis
\* POST of the mounted dialog leaves isScanning false, and (every request being
\* answered) a set flag is always followed by a cleared one.
C8_BusyFlagCleared ==
    /\ [][ (last'.op = "submit" /\ last'.branch # "post") => ~isLoading' ]_vars
    /\ [][ last'.op = "resetResponse" => ~isLoading' ]_vars
    /\ [][ (last'.op = "analysisResponse" /\ ~last'.orphan) => ~isScanning' ]_vars
    /\ isLoading ~> ~isLoading
    /\ isScanning ~> ~isScanning

\* C8 witness: a reset POST has failed without a response and the flag is clear
C8_Witness ==
    /\ last.op = "resetResponse"
    /\ last.outcome.kind = "network"
    /\ ~isLoading
    /\ ~SubmitDisabled

\* the "submit enabled" predicate of the upload dialog
EnablementPredicate ==
    /\ resumeFile # NoFile
    /\ Trim(jobDetails.title) # <<>>
    /\ Trim(jobDetails.company) # <<>>
    /\ Trim(jobDetails.description) # <<>>
    /\ ~isScanning

\* C9: an analysis POST is issued, and the start handler runs, only from a
\* state that satisfies the enablement predicate; the step issues exactly one
\* request, sets isScanning and clears the shared result. In every other state
\* the start action cannot be taken.
C9_StartAnalysisGuarded ==
    /\ [][ (nAnalysisRequests' # nAnalysisRequests \/ last'.op = "startScanning")
           => ( /\ EnablementPredicate
                /\ nAnalysisRequests' = nAnalysisRequests + 1
                /\ Cardinality(analysisInFlight') = Cardinality(analysisInFlight) + 1
                /\ isScanning'
                /\ resumeAnalysisData' = Null ) ]_vars
    /\ [](~EnablementPredicate => ~ENABLED StartScanning)

\* C9 witness: a second analysis has been started after the first was answered
C9_Witness ==
    /\ last.op = "startScanning"
    /\ nAnalysisRequests = 2
    /\ Cardinality(analysisInFlight) = 1
    /\ isScanning
    /\ resumeAnalysisData = Null

\* the four password rules, in their documented order
RuleHolds(i, p) ==
    CASE i = 1 -> Len(p) >= MinPasswordLength
      [] i = 2 -> Contains(p, LowerAZ)
      [] i = 3 -> Contains(p, UpperAZ)
      [] i = 4 -> Contains(p, Digits)

RuleMessage(i) ==
    CASE i = 1 -> MsgLength
      [] i = 2 -> MsgLower
      [] i = 3 -> MsgUpper
      [] i = 4 -> MsgDigit

FirstViolatedRule(p) ==
    IF \A i \in 1..4 : RuleHolds(i, p) THEN Null
    ELSE RuleMessage(CHOOSE i \in 1..4 :
            ~RuleHolds(i, p) /\ \A j \in 1..(i - 1) : RuleHolds(j, p))

\* C10: validatePassword returns the message of the first violated rule in the
\* order length, lowercase, uppercase, digit, and null iff all four rules hold.
C10_ValidateFirstViolatedRule ==
    last.op = "validate"
        => ( /\ last.branch = FirstViolatedRule(passwords.password)
             /\ (last.branch = Null) <=> (\A i \in 1..4 : RuleHolds(i, passwords.password))
             /\ Len(passwords.password) < MinPasswordLength => last.branch = MsgLength
             /\ (Len(passwords.password) >= MinPasswordLength
                   /\ ~Contains(passwords.password, LowerAZ)) => last.branch = MsgLower )

\* C10 witness: a long enough password with neither lowercase letter, uppercase
\* letter nor digit has been validated and reports the lowercase rule
C10_Witness ==
    /\ last.op = "validate"
    /\ Len(passwords.password) >= MinPasswordLength
    /\ ~Contains(passwords.password, LowerAZ)
    /\ ~Contains(passwords.password, UpperAZ)
    /\ ~Contains(passwords.password, Digits)
    /\ last.branch = MsgLower


\* the file the last selection or drop offered
OfferedFile(name) == CHOOSE f \in FileInputs \cup {NoFile} : f.name = name

\* the MIME type is application/pdf or has "document" somewhere in it
MimeAccepted(type) ==
    \/ type = PdfType
    \/ \E i \in 1..Len(type) : \E j \in i..Len(type) : SubSeq(type, i, j) = DocumentWord

\* the offers that satisfy the acceptance predicate
AcceptedOffers == {f \in FileInputs : MimeAccepted(f.type)}

\* C11: a selection and a drop decide alike: a file whose MIME type is
\* application/pdf or contains "document" becomes the selected file; any other
\* file (and an empty selection) leaves the selected file as it was; neither
\* touches any other state, and no error is set.
C11_FileAcceptance ==
    [][ last'.op \in {"fileUpload", "drop"}
        => LET f == OfferedFile(last'.branch) IN
           /\ f \in AcceptedOffers => resumeFile' = f
           /\ f \notin AcceptedOffers => resumeFile' = resumeFile
           /\ UNCHANGED <<jobDetails, isScanning, openDialog, resumeAnalysisData,
                          analysisInFlight, nAnalysisRequests, route, error>> ]_vars

\* C11 witness: an image was dropped while an accepted document was selected,
\* and the document is still the selected file
C11_Witness ==
    /\ last.op = "drop"
    /\ last.branch = "cv.png"
    /\ resumeFile = [type |-> OdtType, name |-> "cv.odt"]


\* C12: a successful answer to the analysis POST closes the dialog, puts the
\* returned payload, as returned, into the shared result slot and navigates to
\* the results view; a failed one does none of these: it leaves the dialog, the
\* route and the result slot (cleared when the request started) as they are,
\* sets no error, and leaves the file selection and the job details unchanged.
C12_AnalysisResponseEffects ==
    [][ /\ (last'.op = "analysisResponse" /\ last'.branch = "ok")
            => ( /\ ~openDialog'
                 /\ last'.data \in AnalysisPayloads
                 /\ resumeAnalysisData' = last'.data
                 /\ route' = ResultsRoute
                 /\ UNCHANGED <<resumeFile, jobDetails, error>> )
        /\ (last'.op = "analysisResponse" /\ last'.branch # "ok")
            => ( /\ UNCHANGED <<openDialog, route, resumeAnalysisData>>
                 /\ UNCHANGED <<resumeFile, jobDetails, error>> ) ]_vars

\* C12 witness: the second analysis, started from the form as filled in after
\* the first had been answered, has failed; the dialog is still open on the
\* dashboard, the slot is still cleared, the form is still filled in
C12_Witness ==
    /\ last.op = "analysisResponse"
    /\ last.branch = "axiosError"
    /\ nAnalysisRequests = 2
    /\ analysisInFlight = {}
    /\ openDialog
    /\ route = DashboardRoute
    /\ resumeAnalysisData = Null
    /\ resumeFile # NoFile
    /\ jobDetails.title # <<>>


\* C13: the answer to an analysis POST that was pending when the dialog was
\* closed by hand writes nothing into the shared result slot and does not
\* navigate, and isScanning is true exactly while an analysis POST is in flight.
C13_CloseCancelsPendingAnalysis ==
    /\ [][ (last'.op = "analysisResponse" /\ last'.cancelled)
           => UNCHANGED <<resumeAnalysisData, route>> ]_vars
    /\ [](isScanning <=> analysisInFlight # {})

====
